---- MODULE Spec2Model ----
(***************************************************************************)
(* Model of util/iou.py: the IoU accumulator.                              *)
(*                                                                         *)
(* The file defines two classes named IoU.  The first (lines 7-92) wraps a *)
(* ConfusionMatrix collaborator and supports an ignore set; the second     *)
(* (lines 94-143) keeps its own matrix `hist`.  The second definition      *)
(* rebinds the module-level name, so `IoU` as imported is the second one.  *)
(* Both are modelled; `cls` says which definition an accumulator is an     *)
(* instance of.  Counts are exact integers and quotients exact rationals   *)
(* (numpy's float64 rounding is not modelled).  Printing has no effect on  *)
(* the state and is left out.                                              *)
(***************************************************************************)
EXTENDS Integers, Sequences, FiniteSets, TLC

(* ------------------------------ bounds --------------------------------- *)

\* Largest num_classes an accumulator is constructed with.
MaxClasses == 3
\* Longest flattened label map of a generated batch.
MaxLen == 2
\* add() is explored while the matrix holds at most this many counts.
MaxCount == 2

(* --------------------------- small helpers ----------------------------- *)

Max(S) == CHOOSE x \in S : \A y \in S : y <= x

RECURSIVE Prod(_)
Prod(s) == IF s = <<>> THEN 1 ELSE Head(s) * Prod(Tail(s))

RECURSIVE GCD(_, _)
GCD(a, b) == IF b = 0 THEN a ELSE GCD(b, a % b)

(* ---------------------- numpy floating quotients ----------------------- *)

\* A float result is an exact fraction <<numerator, denominator>> in lowest
\* terms; 0/0 is NaN and x/0 (x > 0) is inf, as under np.errstate(ignore).
NaN == <<0, 0>>

true_divide(n, d) ==
    IF d = 0 THEN (IF n = 0 THEN NaN ELSE <<1, 0>>)
    ELSE LET g == GCD(n, d) IN <<n \div g, d \div g>>

RatAdd(x, y) == true_divide(x[1] * y[2] + y[1] * x[2], x[2] * y[2])

RECURSIVE RatSum(_, _)
RatSum(v, I) ==
    IF I = {} THEN <<0, 1>>
    ELSE LET i == CHOOSE j \in I : TRUE IN RatAdd(v[i], RatSum(v, I \ {i}))

\* np.nanmean over a 1-D array: the mean of the entries that are not NaN,
\* NaN when there is none (an empty or all-NaN array).
nanmean(v) ==
    LET I == {i \in DOMAIN v : v[i] # NaN}
    IN IF I = {} THEN NaN
       ELSE LET s == RatSum(v, I)
            IN true_divide(s[1], s[2] * Cardinality(I))

(* ------------------------------ tensors -------------------------------- *)

\* A tensor is its shape and its elements in row-major order.
dim(x) == Len(x.shape)
size(x, d) == x.shape[d + 1]
flatten(x) == x.data

\* Index of the first maximal value among v[0..K-1].
argmax(v, K) ==
    CHOOSE k \in 0..(K - 1) :
        /\ \A j \in 0..(K - 1) : v[j] <= v[k]
        /\ \A j \in 0..(k - 1) : v[j] < v[k]

\* x.max(1)[1] for a rank-4 tensor (B, K, H, W): the (B, H, W) tensor of the
\* index of the maximum along the class axis.
max1(x) ==
    LET B == x.shape[1]
        K == x.shape[2]
        inner == x.shape[3] * x.shape[4]
        at(i, k) == x.data[(((i - 1) \div inner) * K + k) * inner
                           + ((i - 1) % inner) + 1]
    IN [shape |-> <<B, x.shape[3], x.shape[4]>>,
        data  |-> [i \in 1..(B * inner) |->
                      argmax([k \in 0..(K - 1) |-> at(i, k)], K)]]

(* --------------------------- the matrix -------------------------------- *)

np_zeros(n) == [i \in 0..(n - 1) |-> [j \in 0..(n - 1) |-> 0]]

MatAdd(h, g) == [i \in DOMAIN h |-> [j \in DOMAIN h[i] |-> h[i][j] + g[i][j]]]

RECURSIVE SumOver(_, _)
SumOver(f, S) ==
    IF S = {} THEN 0
    ELSE LET i == CHOOSE j \in S : TRUE IN f[i] + SumOver(f, S \ {i})

\* hist.sum(1): per-row sums; hist.sum(0): per-column sums; np.diag.
sum1(h) == [i \in DOMAIN h |-> SumOver(h[i], DOMAIN h[i])]
sum0(h) == [j \in DOMAIN h |-> SumOver([i \in DOMAIN h |-> h[i][j]], DOMAIN h)]
diag(h) == [i \in DOMAIN h |-> h[i][i]]
Total(h) == SumOver(sum1(h), DOMAIN h)

(* ---------------------------- fast_hist -------------------------------- *)

\* np.bincount(x, minlength): x maps the kept positions to bin numbers, none
\* negative; the result has max(minlength, max(x) + 1) bins.
bincount(x, minlength) ==
    LET top == Max({minlength - 1} \cup {x[i] : i \in DOMAIN x})
    IN [v \in 0..top |-> Cardinality({i \in DOMAIN x : x[i] = v})]

\* v.reshape(n, n), defined when v has exactly n * n elements.
reshape(v, n) == [i \in 0..(n - 1) |-> [j \in 0..(n - 1) |-> v[n * i + j]]]

\* Mutant: the roles of label and prediction exchanged, n * b[k] + a[k].
fast_hist_bins_swapped(a, b, n) ==
    LET k == {i \in 1..Len(a) : a[i] >= 0 /\ a[i] < n}
    IN [i \in k |-> n * b[i] + a[i]]

\* The bin of each kept position: k = (a >= 0) & (a < n); n * a[k] + b[k].
fast_hist_bins(a, b, n) ==
    LET k == {i \in 1..Len(a) : a[i] >= 0 /\ a[i] < n}
    IN [i \in k |-> n * a[i] + b[i]]

\* fast_hist(a, b, n): a is the flattened label, b the flattened prediction.
\* np.bincount raises ValueError on a negative bin; reshape raises ValueError
\* when a bin >= n * n made the count vector longer than n * n.
fast_hist(a, b, n) ==
    LET x == fast_hist_bins(a, b, n)
    IN IF \E i \in DOMAIN x : x[i] < 0
       THEN [raised |-> "ValueError", value |-> np_zeros(n)]
       ELSE LET c == bincount(x, n * n)
            IN IF Cardinality(DOMAIN c) # n * n
               THEN [raised |-> "ValueError", value |-> np_zeros(n)]
               ELSE [raised |-> "none", value |-> reshape(c, n)]

(* ------------------- first definition (lines 7-92) --------------------- *)

\* __init__: the ignore_index argument is None, an int or an iterable of ints;
\* self.ignore_index is None or a tuple.
IoU1_init_ignore(arg) ==
    IF arg.kind = "None" THEN [isNone |-> TRUE, idx |-> <<>>]
    ELSE IF arg.kind = "int" THEN [isNone |-> FALSE, idx |-> <<arg.val[1]>>]
    ELSE [isNone |-> FALSE, idx |-> arg.val]

\* ConfusionMatrix (util/confusionmatrix.py) is not among the sources.  Its
\* add() is the batched bin-count: a length mismatch skips the update,
\* otherwise bincount(N * t + p, minlength = N * N) reshaped to N x N is added.
ConfusionMatrix_add(conf, predicted, target, n) ==
    IF Len(target) # Len(predicted)
    THEN [raised |-> "none", skipped |-> TRUE, hist |-> conf]
    ELSE LET h == fast_hist(target, predicted, n)
         IN IF h.raised # "none"
            THEN [raised |-> h.raised, skipped |-> FALSE, hist |-> conf]
            ELSE [raised |-> "none", skipped |-> FALSE,
                  hist |-> MatAdd(conf, h.value)]

\* ConfusionMatrix.value(): the current counts, handed out as an array of the
\* caller's own (value() of the accumulator is a pure read).
ConfusionMatrix_value(conf) == [array |-> conf, shared |-> FALSE]

\* ConfusionMatrix.reset(): all counts back to zero.
ConfusionMatrix_reset(n) == np_zeros(n)

\* add (lines 54-68): the three assertions, the arg-max decoding of rank-4
\* inputs, then conf_metric.add on the flattened views.
IoU1_add(conf, predicted, target, n) ==
    IF \/ size(predicted, 0) # size(target, 0)
       \/ ~(dim(predicted) = 3 \/ dim(predicted) = 4)
       \/ ~(dim(target) = 3 \/ dim(target) = 4)
    THEN [raised |-> "AssertionError", skipped |-> FALSE, hist |-> conf]
    ELSE LET p == IF dim(predicted) = 4 THEN max1(predicted) ELSE predicted
             t == IF dim(target) = 4 THEN max1(target) ELSE target
         IN ConfusionMatrix_add(conf, flatten(p), flatten(t), n)

\* Mutant: only the columns of the ignore set are zeroed.
ZeroIgnored_columns(conf_matrix, idx) ==
    LET ign == {idx[i] : i \in DOMAIN idx}
    IN [i \in DOMAIN conf_matrix |-> [j \in DOMAIN conf_matrix[i] |->
           IF j \in ign THEN 0 ELSE conf_matrix[i][j]]]

\* conf_matrix[:, ignore_index] = 0; conf_matrix[ignore_index, :] = 0
ZeroIgnored(conf_matrix, idx) ==
    LET ign == {idx[i] : i \in DOMAIN idx}
    IN [i \in DOMAIN conf_matrix |-> [j \in DOMAIN conf_matrix[i] |->
           IF i \in ign \/ j \in ign THEN 0 ELSE conf_matrix[i][j]]]

\* Mutant: the false negatives left out of the denominator.
IoU1_derive_no_fn(conf_matrix) ==
    LET n == Cardinality(DOMAIN conf_matrix)
        true_positive == diag(conf_matrix)
        col == sum0(conf_matrix)
        false_positive == [c \in 0..(n - 1) |-> col[c] - true_positive[c]]
        iou == [c \in 1..n |->
                   true_divide(true_positive[c - 1],
                               true_positive[c - 1] + false_positive[c - 1])]
    IN [iou |-> iou, miou |-> nanmean(iou)]

\* value (lines 84-92): true_positive, false_positive and false_negative from
\* the diagonal and the column and row sums, iou as their quotient under
\* np.errstate(divide='ignore', invalid='ignore'), and np.nanmean(iou).
IoU1_derive(conf_matrix) ==
    LET n == Cardinality(DOMAIN conf_matrix)
        true_positive == diag(conf_matrix)
        col == sum0(conf_matrix)
        row == sum1(conf_matrix)
        false_positive == [c \in 0..(n - 1) |-> col[c] - true_positive[c]]
        false_negative == [c \in 0..(n - 1) |-> row[c] - true_positive[c]]
        iou == [c \in 1..n |->
                   true_divide(true_positive[c - 1],
                               true_positive[c - 1] + false_positive[c - 1]
                                   + false_negative[c - 1])]
    IN [iou |-> iou, miou |-> nanmean(iou)]

\* Mutant: the zeroing is applied to the accumulated counts themselves.
IoU1_value_in_place(conf, ignore_index) ==
    LET r == ConfusionMatrix_value(conf)
        conf_matrix == IF ~ignore_index.isNone
                       THEN ZeroIgnored(r.array, ignore_index.idx)
                       ELSE r.array
        d == IoU1_derive(conf_matrix)
    IN [iou |-> d.iou, miou |-> d.miou, conf |-> conf_matrix]

\* value (lines 80-92).  `conf` is the collaborator's matrix after the call:
\* the zeroing is an in-place assignment, so it reaches the accumulated counts
\* exactly when the array handed out is the collaborator's own.
IoU1_value(conf, ignore_index) ==
    LET r == ConfusionMatrix_value(conf)
        conf_matrix == IF ~ignore_index.isNone
                       THEN ZeroIgnored(r.array, ignore_index.idx)
                       ELSE r.array
        d == IoU1_derive(conf_matrix)
    IN [iou |-> d.iou, miou |-> d.miou,
        conf |-> IF r.shared THEN conf_matrix ELSE conf]

(* ------------------ second definition (lines 94-143) ------------------- *)

\* Mutant: the new matrix is filled with ones.
IoU2_reset_ones(num) == [i \in 0..(num - 1) |-> [j \in 0..(num - 1) |-> 1]]

\* reset (line 101): a new all-zero num_classes x num_classes matrix.
IoU2_reset(num) == np_zeros(num)

\* Mutant: no length check; the mask of the labels then indexes a prediction
\* array of another length, which numpy refuses with an IndexError.
IoU2_add_unchecked(h, pred, label, n) ==
    LET p == IF dim(pred) = 4 THEN max1(pred) ELSE pred
        l == IF dim(label) = 4 THEN max1(label) ELSE label
    IN IF Len(flatten(l)) # Len(flatten(p))
       THEN [raised |-> "IndexError", skipped |-> FALSE, hist |-> h]
       ELSE LET f == fast_hist(flatten(l), flatten(p), n)
            IN IF f.raised # "none"
               THEN [raised |-> f.raised, skipped |-> FALSE, hist |-> h]
               ELSE [raised |-> "none", skipped |-> FALSE,
                     hist |-> MatAdd(h, f.value)]

\* add (lines 105-114): the arg-max decoding of rank-4 inputs, the length
\* check that skips the call, then self.hist += fast_hist(...).
IoU2_add(h, pred, label, n) ==
    LET p == IF dim(pred) = 4 THEN max1(pred) ELSE pred
        l == IF dim(label) = 4 THEN max1(label) ELSE label
    IN IF Len(flatten(l)) # Len(flatten(p))
       THEN [raised |-> "none", skipped |-> TRUE, hist |-> h]
       ELSE LET f == fast_hist(flatten(l), flatten(p), n)
            IN IF f.raised # "none"
               THEN [raised |-> f.raised, skipped |-> FALSE, hist |-> h]
               ELSE [raised |-> "none", skipped |-> FALSE,
                     hist |-> MatAdd(h, f.value)]

\* np.maximum(x, 1)
maximum1(x) == IF x >= 1 THEN x ELSE 1

\* Mutant: the denominator is not floored at 1.
per_class_iu_unfloored(h) ==
    LET n == Cardinality(DOMAIN h)
    IN [c \in 1..(n - 1) |->
           true_divide(diag(h)[c], sum1(h)[c] + sum0(h)[c] - diag(h)[c])]

\* per_class_iu (line 138): np.diag(hist)[1:] / np.maximum((hist.sum(1) +
\* hist.sum(0) - np.diag(hist))[1:], 1).  Entry i of the result (1-based) is
\* class i; class 0 is sliced away.
per_class_iu(h) ==
    LET n == Cardinality(DOMAIN h)
    IN [c \in 1..(n - 1) |->
           true_divide(diag(h)[c],
                       maximum1(sum1(h)[c] + sum0(h)[c] - diag(h)[c]))]

\* value (lines 118-123): returns (mIoUs, miou).
IoU2_value(h) ==
    LET mIoUs == per_class_iu(h)
    IN [iou |-> mIoUs, miou |-> nanmean(mIoUs), conf |-> h]

(* ------------------------------ inputs --------------------------------- *)

\* Class indices offered to add(): every class and one value out of range on
\* each side.
Vals(n) == (0 - 1)..n
Scores == {0, 1}

TensorsOf(shape, V) ==
    {[shape |-> shape, data |-> d] : d \in [1..Prod(shape) -> V]}

\* (1, 1, len) label maps.
Dense(n, len) == TensorsOf(<<1, 1, len>>, Vals(n))

\* Tensors of at most one position in every shape the checks tell apart:
\* dense rank 3, batch count 2, rank 4 with two score channels, rank 2.
SmallTensors(n) ==
    Dense(n, 0) \cup Dense(n, 1) \cup TensorsOf(<<2, 1, 0>>, Vals(n))
        \cup TensorsOf(<<1, 2, 1, 1>>, Scores) \cup TensorsOf(<<1, 1>>, Vals(n))

\* The 2 x 2 grids of the documented example.
ExamplePred == [shape |-> <<2, 2>>, data |-> <<0, 1, 1, 0>>]
ExampleTarget == [shape |-> <<2, 2>>, data |-> <<0, 1, 1, 1>>]

\* Positions of a label map after the class axis of a rank-4 input is reduced.
positions(x) == IF dim(x) = 4 THEN Len(x.data) \div x.shape[2] ELSE Len(x.data)

\* Any batch is offered to an empty matrix; later ones while the matrix stays
\* within MaxCount.
Room(h) == IF Total(h) = 0 THEN MaxLen + MaxCount + 4 ELSE MaxCount - Total(h)
Fits(S, h) == LET room == Room(h) IN {t \in S : positions(t) <= room}
Lens(h) == LET room == Room(h) IN {l \in 0..MaxLen : l <= room}

\* ignore_index arguments of the first definition's constructor.
IgnoreArgs(n) ==
    {[kind |-> "None", val |-> <<>>], [kind |-> "int", val |-> <<0>>]}
        \cup (IF n >= 2 THEN {[kind |-> "iter", val |-> <<0, n - 1>>]} ELSE {})

(* --------------------------- state machine ----------------------------- *)

VARIABLES
    cls,            \* 1: the first definition, 2: the second
    num_classes,    \* num_classes given to the constructor
    ignore_index,   \* self.ignore_index (first definition)
    hist,           \* self.hist / the ConfusionMatrix's counts
    pc,             \* "idle", or "add" while a call of add() is running
    args,           \* the (predicted, target) arguments of the running add()
    last            \* the last completed call and its outcome ("call" while
                    \* add() is running)

vars == <<cls, num_classes, ignore_index, hist, pc, args, last>>

NoTensor == [shape |-> <<>>, data |-> <<>>]
NoArgs == [predicted |-> NoTensor, target |-> NoTensor]

\* `changed` records whether the call altered the matrix.
Done(op, raised, skipped, changed, iou, miou) ==
    [op |-> op, raised |-> raised, skipped |-> skipped, changed |-> changed,
     iou |-> iou, miou |-> miou]

\* The state after construction (lines 25-37 and 95-97).  The second
\* definition's constructor takes no ignore_index.
Init ==
    /\ cls \in {1, 2}
    /\ num_classes \in 1..MaxClasses
    /\ ignore_index \in
           IF cls = 1 THEN {IoU1_init_ignore(a) : a \in IgnoreArgs(num_classes)}
           ELSE {IoU1_init_ignore([kind |-> "None", val |-> <<>>])}
    /\ hist = np_zeros(num_classes)
    /\ pc = "idle"
    /\ args = NoArgs
    /\ last = Done("init", "none", FALSE, FALSE, <<>>, NaN)

reset ==
    /\ pc = "idle"
    /\ hist' = IF cls = 1 THEN ConfusionMatrix_reset(num_classes)
               ELSE IoU2_reset(num_classes)
    /\ last' = Done("reset", "none", FALSE, hist' # hist, <<>>, NaN)
    /\ UNCHANGED <<cls, num_classes, ignore_index, pc, args>>

\* The caller invokes add(predicted, target).
call_add(predicted, target) ==
    /\ pc' = "add"
    /\ args' = [predicted |-> predicted, target |-> target]
    /\ last' = Done("call", "none", FALSE, FALSE, <<>>, NaN)
    /\ UNCHANGED <<cls, num_classes, ignore_index, hist>>

\* The (predicted, target) pairs add() is called with: dense label maps of
\* equal length, every pair of the small tensors, dense maps of unequal
\* length, and the documented example.
call ==
    /\ pc = "idle"
    /\ \/ \E len \in Lens(hist) :
              \E p \in Dense(num_classes, len), t \in Dense(num_classes, len) :
                  call_add(p, t)
       \/ \E p \in SmallTensors(num_classes),
             t \in Fits(SmallTensors(num_classes), hist) : call_add(p, t)
       \/ \E p \in Dense(num_classes, MaxLen),
             t \in Fits(Dense(num_classes, 1), hist) : call_add(p, t)
       \/ \E t \in Fits({ExampleTarget}, hist) : call_add(ExamplePred, t)

\* The body of add(), to its return or its exception.
add ==
    /\ pc = "add"
    /\ LET r == IF cls = 1
                THEN IoU1_add(hist, args.predicted, args.target, num_classes)
                ELSE IoU2_add(hist, args.predicted, args.target, num_classes)
       IN /\ hist' = r.hist
          /\ last' = Done("add", r.raised, r.skipped, r.hist # hist, <<>>, NaN)
    /\ pc' = "idle"
    /\ args' = NoArgs
    /\ UNCHANGED <<cls, num_classes, ignore_index>>

value ==
    /\ pc = "idle"
    /\ LET r == IF cls = 1 THEN IoU1_value(hist, ignore_index)
                ELSE IoU2_value(hist)
       IN /\ hist' = r.conf
          /\ last' = Done("value", "none", FALSE, r.conf # hist, r.iou, r.miou)
    /\ UNCHANGED <<cls, num_classes, ignore_index, pc, args>>

Next ==
    \/ reset
    \/ call
    \/ add
    \/ value

Spec == Init /\ [][Next]_vars

(* ------------------------------ claims --------------------------------- *)

\* The step that runs the body of add() on the arguments in `args`.
AddStep == pc = "add" /\ pc' = "idle"

\* The flattened index sequences add() works on: a rank-4 input reduced by
\* the arg-max over its class axis, any other input as it is.
Decoded(x) == IF dim(x) = 4 THEN flatten(max1(x)) ELSE flatten(x)
P == Decoded(args.predicted)
T == Decoded(args.target)
Classes == 0..(num_classes - 1)

\* Positions of the batch (t, p) with true index i and predicted index j.
Hits(t, p, i, j) == Cardinality({k \in 1..Len(t) : t[k] = i /\ p[k] = j})

\* C1 (as stated): an add() of the second definition on flattened inputs of
\* equal length leaves every entry matrix[i][j] at its old value plus the
\* number of positions with true index i and predicted index j; positions
\* with a true index outside [0, N) change nothing.
C1_Original ==
    [][(AddStep /\ cls = 2 /\ Len(P) = Len(T)) =>
          \A i \in Classes : \A j \in Classes :
              hist'[i][j] = hist[i][j] + Hits(T, P, i, j)]_vars

\* Equal-length batches (predicted, target) of at most one position.
UnitBatches ==
    UNION {Dense(num_classes, l) \X Dense(num_classes, l) : l \in 0..1}

Concat(x, y) == [shape |-> <<1, 1, Len(x.data) + Len(y.data)>>,
                 data |-> x.data \o y.data]

\* C2 (as stated): on a fresh accumulator of the second definition,
\* add(a1, b1) followed by add(a2, b2) leaves the matrix that one add of the
\* concatenated batch leaves.  The matrix is all the state add() reads, so
\* the claim is stated at each add(a2, b2) step, for every (a1, b1) whose add
\* takes a fresh accumulator to the matrix the step starts from.
C2_Original ==
    [][(AddStep /\ cls = 2 /\ dim(args.predicted) = 3 /\ dim(args.target) = 3
            /\ Len(P) = Len(T)) =>
          \A b \in UnitBatches :
              IoU2_add(np_zeros(num_classes), b[1], b[2], num_classes).hist = hist
                  => hist' = IoU2_add(np_zeros(num_classes),
                                      Concat(b[1], args.predicted),
                                      Concat(b[2], args.target),
                                      num_classes).hist]_vars

\* The inputs the dimension check of add() is to refuse.
BadShape ==
    \/ size(args.predicted, 0) # size(args.target, 0)
    \/ dim(args.predicted) \notin {3, 4}
    \/ dim(args.target) \notin {3, 4}

\* C4 (as stated): add() on inputs whose batch counts differ, or one of which
\* has a rank other than 3 or 4, fails and leaves the matrix unchanged.
C4_Original ==
    [][(AddStep /\ BadShape) =>
          (last'.raised # "none" /\ hist' = hist)]_vars

\* C3: an add() whose flattened inputs differ in length (and, for the first
\* definition, pass its dimension check) returns normally and leaves every
\* matrix entry unchanged; and in every state, those after a skipped call
\* included, an add() of equal-length inputs with predictions in [0, N) adds
\* one count per position with an in-range true index.
C3_SkipOnLengthMismatch ==
    [][/\ (AddStep /\ Len(P) # Len(T) /\ (cls = 1 => ~BadShape)) =>
              /\ hist' = hist
              /\ last'.raised = "none"
              /\ last'.skipped
       /\ (AddStep /\ Len(P) = Len(T) /\ (cls = 1 => ~BadShape)
               /\ \A k \in 1..Len(P) : P[k] \in Classes) =>
              /\ last'.raised = "none"
              /\ ~last'.skipped
              /\ \A i \in Classes : \A j \in Classes :
                     hist'[i][j] = hist[i][j] + Hits(T, P, i, j)]_vars

\* C3's case: a call of the second definition was skipped while the matrix
\* held counts.
C3_Witness ==
    cls = 2 /\ last.op = "add" /\ last.skipped /\ Total(hist) > 0

AllZero == \A i \in Classes : \A j \in Classes : hist[i][j] = 0

QuotIs(e, n, d) == IF d = 0 THEN e = NaN ELSE e[2] > 0 /\ e[1] * d = n * e[2]

RECURSIVE ProdOver(_, _)
ProdOver(f, S) ==
    IF S = {} THEN 1
    ELSE LET i == CHOOSE j \in S : TRUE IN f[i] * ProdOver(f, S \ {i})

\* The fraction m is the arithmetic mean of num[c] / den[c] over c in I (every
\* den[c] positive); NaN when I is empty.
MeanIs(m, num, den, I) ==
    IF I = {} THEN m = NaN
    ELSE /\ m[2] > 0
         /\ m[1] * Cardinality(I) * ProdOver(den, I)
                = m[2] * SumOver([c \in I |-> num[c] * ProdOver(den, I \ {c})], I)

\* row_sum[c] + column_sum[c] - M[c][c]
UnionOf(M, c) ==
    SumOver(M[c], Classes) + SumOver([i \in Classes |-> M[i][c]], Classes)
        - M[c][c]

\* value() returned, for every class of M, the quotient M[c][c] / UnionOf(M, c)
\* (NaN on a zero denominator) and the mean over the classes that are not NaN.
IouOfAllClasses(M) ==
    /\ Len(last.iou) = num_classes
    /\ \A c \in Classes : QuotIs(last.iou[c + 1], M[c][c], UnionOf(M, c))
    /\ MeanIs(last.miou, [c \in Classes |-> M[c][c]],
              [c \in Classes |-> UnionOf(M, c)],
              {c \in Classes : UnionOf(M, c) # 0})

Ignored == IF ignore_index.isNone THEN {}
           ELSE {ignore_index.idx[k] : k \in DOMAIN ignore_index.idx}
Masked == [i \in Classes |-> [j \in Classes |->
              IF i \in Ignored \/ j \in Ignored THEN 0 ELSE hist[i][j]]]
Floored(d) == IF d = 0 THEN 1 ELSE d

Mat2(a, b, c, d) ==
    [i \in 0..1 |-> [j \in 0..1 |-> <<<<a, b>>, <<c, d>>>>[i + 1][j + 1]]]

IsExample == args.predicted = ExamplePred /\ args.target = ExampleTarget

C9_IgnoreIndexZero ==
    (cls = 1 /\ num_classes = 3 /\ ~ignore_index.isNone
         /\ ignore_index.idx = <<0>> /\ last.op = "value") =>
        /\ Len(last.iou) = 3
        /\ last.iou[1] = NaN
        /\ QuotIs(last.iou[2], hist[1][1],
                  hist[1][1] + hist[1][2] + hist[2][1])
        /\ QuotIs(last.iou[3], hist[2][2],
                  hist[2][2] + hist[2][1] + hist[1][2])

\* C9's case: value() while class 0 holds a hit and is confused with class 1.
C9_Witness ==
    /\ cls = 1 /\ num_classes = 3 /\ ~ignore_index.isNone
    /\ ignore_index.idx = <<0>> /\ last.op = "value"
    /\ hist[0][0] > 0 /\ hist[0][1] > 0

\* C10: after reset() the matrix is all-zero with its N x N dimensions, as
\* after construction, whatever was called before; a reset() right after a
\* reset() finds and leaves that state.
C10_ResetClears ==
    last.op = "reset" =>
        /\ DOMAIN hist = Classes
        /\ \A i \in Classes : DOMAIN hist[i] = Classes
        /\ AllZero

\* C10's case: a reset() that cleared counts.
C10_Witness == last.op = "reset" /\ last.changed

====
